---- MODULE Spec2Model ----
(***************************************************************************)
(* A model of vipwrap: the transfer client (src/vipwrap/gdi.py) and the    *)
(* order / invoice schemas (src/vippy/models.py, src/models.py).           *)
(*                                                                         *)
(* Spec models one call of the transfer client (send_file_to_gdi,          *)
(* download_files_from_gdi, delete_sftp) against a remote server whose     *)
(* steps may fail.  File names and paths are sequences of characters.      *)
(***************************************************************************)
EXTENDS Integers, Sequences, FiniteSets, TLC

(***************************************************************************)
(* Bounds of the model.                                                    *)
(***************************************************************************)
MaxFiles == 3
MaxSize == 2

(***************************************************************************)
(* Program constants.                                                      *)
(***************************************************************************)
MaxAttempts == 3
SleepSeconds == 60

(***************************************************************************)
(* The inputs a call is made with.                                         *)
(***************************************************************************)
Methods == {"sftp", "ftp", "scp"}
Root == << >>
FolderD == <<"d", "/">>
Folders == {Root, FolderD}
Names == {<<"a">>, <<"a", "b">>, <<"b", "a">>}
Prefixes == {<< >>, <<"a">>, <<"a", "b">>}
AllPaths == {fo \o n : fo \in Folders, n \in Names}
Sizes == 0..MaxSize
NlstStyles == {"path", "name"}

VARIABLES
    op,            \* which operation the caller invoked
    ftp_method,    \* the protocol selector
    folder,        \* the remote folder argument
    file_string,   \* the name prefix (fetch) or the exact filename (delete)
    delete_after,  \* delete_after_download
    nlst_style,    \* whether the FTP server lists "folder/name" or "name"
    local_size,    \* os.path.getsize(file.name)
    remote_size,   \* size of the uploaded remote file (0: none yet)
    remote,        \* the paths of the files on the server
    remote0,       \* the paths of the files on the server when the call began
    pc,            \* position in the code
    attempt,       \* the loop variable of send_file_to_gdi
    attempts,      \* upload attempts started
    waits,         \* time.sleep(60) calls made
    clock,         \* seconds slept
    outcomes,      \* one record per finished attempt
    err,           \* the exception in flight or raised last
    result,        \* "none" while running, then "ok" or "error"
    open,          \* network handles currently open
    files,         \* the listing being iterated
    idx,           \* position in the listing
    downloaded,    \* remote paths retrieved
    removed        \* remote paths removed

\* the schema validator's state
VARIABLES
    schema,        \* "order" or "invoice" ("none" in a transfer call)
    dataset,       \* the rows to validate: functions from field names to text
    rowi,          \* the row being validated (1-based)
    violations,    \* the violations found so far, in order
    vresult        \* "none" while validating, then "valid" or "invalid"

inputs == <<op, ftp_method, folder, file_string, delete_after, nlst_style,
            local_size, remote0>>
tvars == <<op, ftp_method, folder, file_string, delete_after, nlst_style,
           local_size, remote_size, remote, remote0, pc, attempt, attempts,
           waits, clock, outcomes, err, result, open, files, idx, downloaded,
           removed>>
vvars == <<schema, dataset, rowi, violations, vresult>>
vars == <<tvars, vvars>>

NoErr == [kind |-> "none", attempt |-> 0]
NoneOpen == [ssh |-> 0, sftp |-> 0, ftp |-> 0]

(***************************************************************************)
(* Pure helpers of the transfer client.                                    *)
(***************************************************************************)
\* str.startswith
StartsWith(s, p) == Len(p) <= Len(s) /\ SubSeq(s, 1, Len(p)) = p

\* every ordering of a finite set, as sequences: the server chooses the order
\* of a listing
Perms(S) ==
    {s \in [1..Cardinality(S) -> S] :
        \A i, j \in 1..Cardinality(S) : i # j => s[i] # s[j]}

\* download_sftp / download_ftp: if f.startswith(file_string)
Matches(f, s) == StartsWith(f, s)

\* IsTarget with the equality weakened to a prefix test
IsTargetPrefix(f, filename) == StartsWith(f, filename)

\* delete_sftp: if f == filename
IsTarget(f, filename) == f = filename

\* SizesMatch with the comparison dropped
SizesMatchAlways(l, r) == TRUE

\* upload_sftp: the transfer is good when local_file_size == remote_file_size
SizesMatch(l, r) == l = r

\* ShouldSleep with the bound off by one: the last attempt sleeps too
ShouldSleepOffByOne(a) == a < 3

\* send_file_to_gdi: if attempt < 2 (sleep and retry), else re-raise
ShouldSleep(a) == a < 2

\* ShouldRemove with the flag ignored
ShouldRemoveAlways(flag) == TRUE

\* download_*: if download_after_delete
ShouldRemove(flag) == flag

\* the protocols a delete operation exists for: delete_sftp only
DeleteMethods == {"sftp"}

(***************************************************************************)
(* The remote server.                                                      *)
(***************************************************************************)
\* the entries of a directory: its files and, in the login directory, the
\* sub-directory d when it holds a file
Entries(fo) ==
    {n \in Names : fo \o n \in remote}
        \cup (IF fo = Root /\ \E p \in remote : StartsWith(p, FolderD)
              THEN {<<"d">>} ELSE {})

\* SFTPClient.listdir(folder): bare names
SftpListing == Entries(folder)

\* FTP.nlst(folder): names prefixed by the argument, or bare names, as the
\* server pleases
FtpListing ==
    IF nlst_style = "path" THEN {folder \o n : n \in Entries(folder)}
    ELSE Entries(folder)

\* the remote path an entry f of the listing is fetched from and removed at:
\* sftp uses folder + f, ftp uses f (relative to the login directory)
RemotePath(f) == IF ftp_method = "sftp" THEN folder \o f ELSE f

\* a path names a regular file of the server
IsFile(p) == p \in remote

(***************************************************************************)
(* The state after the caller has made its call.                           *)
(***************************************************************************)
TransferInit ==
    /\ op \in {"send", "fetch", "delete"}
    /\ ftp_method \in Methods
    /\ folder \in Folders
    /\ file_string \in IF op = "fetch" THEN Prefixes
                       ELSE IF op = "delete" THEN Names ELSE {<< >>}
    /\ delete_after \in IF op = "fetch" THEN BOOLEAN ELSE {FALSE}
    /\ nlst_style \in IF op = "fetch" /\ ftp_method = "ftp"
                      THEN NlstStyles ELSE {"path"}
    /\ local_size \in IF op = "send" THEN 1..MaxSize ELSE {1}
    /\ remote_size = 0
    /\ remote \in IF op = "send" THEN {{}}
                  ELSE {r \in SUBSET AllPaths : Cardinality(r) <= MaxFiles}
    /\ remote0 = remote
    /\ pc = IF op = "send" THEN "attempt" ELSE "call"
    /\ attempt = 0
    /\ attempts = 0
    /\ waits = 0
    /\ clock = 0
    /\ outcomes = << >>
    /\ err = NoErr
    /\ result = "none"
    /\ open = NoneOpen
    /\ files = << >>
    /\ idx = 1
    /\ downloaded = {}
    /\ removed = {}
    /\ schema = "none"
    /\ dataset = << >>
    /\ rowi = 0
    /\ violations = << >>
    /\ vresult = "none"

sendv == <<attempt, attempts, waits, clock>>
listv == <<files, idx, downloaded, removed, remote>>

\* an exception of kind k leaves the operation, the uploaded file having size rs:
\* send_file_to_gdi catches it (except Exception), the other operations let it
\* reach the caller
Raise(k, rs) ==
    /\ err' = [kind |-> k, attempt |-> attempt]
    /\ IF op = "send"
       THEN /\ pc' = "except"
            /\ result' = result
            /\ outcomes' = Append(outcomes,
                                  [ok |-> FALSE, kind |-> k, equal |-> (local_size = rs)])
       ELSE /\ pc' = "done"
            /\ result' = "error"
            /\ outcomes' = outcomes

\* the upload returned: break out of the retry loop
Uploaded(rs) ==
    /\ pc' = "done"
    /\ result' = "ok"
    /\ err' = err
    /\ outcomes' = Append(outcomes,
                          [ok |-> TRUE, kind |-> "none", equal |-> (local_size = rs)])

CloseSsh(h) == [h EXCEPT !.ssh = @ - 1]
CloseSftp(h) == [h EXCEPT !.sftp = @ - 1]
CloseFtp(h) == [h EXCEPT !.ftp = @ - 1]

(***************************************************************************)
(* send_file_to_gdi: the retry loop.                                       *)
(***************************************************************************)
\* for attempt in range(3): try: dispatch on ftp_method
SendAttempt ==
    /\ op = "send" /\ pc = "attempt"
    /\ UNCHANGED <<vvars, inputs, remote_size, open, listv, waits, clock, attempt>>
    /\ IF attempt >= MaxAttempts
       THEN \* the loop ran out without a break: the function returns
            /\ pc' = "done" /\ result' = "ok"
            /\ UNCHANGED <<attempts, err, outcomes>>
       ELSE /\ attempts' = attempts + 1
            /\ IF ftp_method = "sftp"
               THEN pc' = "sftp_connect" /\ UNCHANGED <<err, result, outcomes>>
               ELSE IF ftp_method = "ftp"
               THEN pc' = "ftp_connect" /\ UNCHANGED <<err, result, outcomes>>
               ELSE Raise("invalid_method", remote_size)

\* SendExcept with the sleep left out: the retry follows at once
SendExceptNoSleep ==
    /\ op = "send" /\ pc = "except"
    /\ UNCHANGED <<vvars, inputs, remote_size, open, listv, attempts, err, outcomes>>
    /\ IF ShouldSleep(attempt)
       THEN /\ attempt' = attempt + 1
            /\ pc' = "attempt"
            /\ UNCHANGED <<waits, clock, result>>
       ELSE /\ pc' = "done"
            /\ result' = "error"
            /\ UNCHANGED <<waits, clock, attempt>>

\* except Exception: sleep 60 s and go round again, or re-raise on the last
\* attempt
SendExcept ==
    /\ op = "send" /\ pc = "except"
    /\ UNCHANGED <<vvars, inputs, remote_size, open, listv, attempts, err, outcomes>>
    /\ IF ShouldSleep(attempt)
       THEN /\ waits' = waits + 1
            /\ clock' = clock + SleepSeconds
            /\ attempt' = attempt + 1
            /\ pc' = "attempt"
            /\ result' = result
       ELSE /\ pc' = "done"
            /\ result' = "error"
            /\ UNCHANGED <<waits, clock, attempt>>

(***************************************************************************)
(* download_files_from_gdi and delete: the entry points.                   *)
(***************************************************************************)
FetchCall ==
    /\ op = "fetch" /\ pc = "call"
    /\ UNCHANGED <<vvars, inputs, remote_size, open, listv, sendv>>
    /\ IF ftp_method = "sftp"
       THEN pc' = "sftp_connect" /\ UNCHANGED <<err, result, outcomes>>
       ELSE IF ftp_method = "ftp"
       THEN pc' = "ftp_connect" /\ UNCHANGED <<err, result, outcomes>>
       ELSE \* print("Error, invalid FTP method"): the function returns
            pc' = "done" /\ result' = "ok" /\ UNCHANGED <<err, outcomes>>

\* the module has one delete operation, delete_sftp, and no selector: a
\* caller that selected another protocol has nothing to call
DeleteCall ==
    /\ op = "delete" /\ pc = "call"
    /\ UNCHANGED <<vvars, inputs, remote_size, open, listv, sendv>>
    /\ IF ftp_method \in DeleteMethods
       THEN pc' = "sftp_connect" /\ UNCHANGED <<err, result, outcomes>>
       ELSE Raise("unsupported", remote_size)

(***************************************************************************)
(* The SFTP session: with connect_sftp(...) as ssh: with ssh.open_sftp().  *)
(***************************************************************************)
\* connect_sftp: SSHClient(); ssh.connect(host, port, username, password).
\* connect_sftp has no try/finally and the caller's with block is entered
\* only when it returns: a connect that raises once the transport is up
\* (authentication) leaves the client unclosed.
SftpConnect ==
    /\ pc = "sftp_connect"
    /\ UNCHANGED <<vvars, inputs, remote_size, listv, sendv>>
    /\ \/ /\ open' = [open EXCEPT !.ssh = @ + 1]
          /\ pc' = "open_sftp"
          /\ UNCHANGED <<err, result, outcomes>>
       \/ /\ open' = open
          /\ Raise("connect", remote_size)
       \/ /\ open' = [open EXCEPT !.ssh = @ + 1]
          /\ Raise("auth", remote_size)

\* with ssh.open_sftp() as sftp
SftpOpen ==
    /\ pc = "open_sftp"
    /\ UNCHANGED <<vvars, inputs, remote_size, listv, sendv>>
    /\ \/ /\ open' = [open EXCEPT !.sftp = @ + 1]
          /\ pc' = (IF op = "send" THEN "put" ELSE "listdir")
          /\ UNCHANGED <<err, result, outcomes>>
       \/ /\ open' = CloseSsh(open)
          /\ Raise("channel", remote_size)

\* sftp.put(file.name, remote_path)
SftpPut ==
    /\ pc = "put"
    /\ UNCHANGED <<vvars, inputs, listv, sendv>>
    /\ \E rs \in Sizes :
        /\ remote_size' = rs
        /\ \/ /\ pc' = "stat"
              /\ UNCHANGED <<open, err, result, outcomes>>
           \/ /\ open' = CloseSsh(CloseSftp(open))
              /\ Raise("transfer", rs)

\* os.path.getsize, sftp.stat, the comparison, and the end of both with blocks
SftpStat ==
    /\ pc = "stat"
    /\ UNCHANGED <<vvars, inputs, remote_size, listv, sendv>>
    /\ open' = CloseSsh(CloseSftp(open))
    /\ \/ Raise("stat", remote_size)
       \/ IF SizesMatch(local_size, remote_size)
          THEN Uploaded(remote_size)
          ELSE Raise("size_mismatch", remote_size)

(***************************************************************************)
(* The FTP session: with FTP(host) as ftp.                                 *)
(***************************************************************************)
FtpConnect ==
    /\ pc = "ftp_connect"
    /\ UNCHANGED <<vvars, inputs, remote_size, listv, sendv>>
    /\ \/ /\ open' = [open EXCEPT !.ftp = @ + 1]
          /\ pc' = "ftp_login"
          /\ UNCHANGED <<err, result, outcomes>>
       \/ /\ open' = open
          /\ Raise("connect", remote_size)

\* ftp.login(user, password)
FtpLogin ==
    /\ pc = "ftp_login"
    /\ UNCHANGED <<vvars, inputs, remote_size, listv, sendv>>
    /\ \/ /\ pc' = (IF op = "send" THEN "stor" ELSE "nlst")
          /\ UNCHANGED <<open, err, result, outcomes>>
       \/ /\ open' = CloseFtp(open)
          /\ Raise("auth", remote_size)

\* upload_ftp: open(file.name, "rb"); ftp.storbinary(...): no size is compared
FtpStor ==
    /\ pc = "stor"
    /\ UNCHANGED <<vvars, inputs, listv, sendv>>
    /\ open' = CloseFtp(open)
    /\ \E rs \in Sizes :
        /\ remote_size' = rs
        /\ \/ Uploaded(rs)
           \/ Raise("transfer", rs)

(***************************************************************************)
(* download_sftp, download_ftp, delete_sftp: the listing and its loop.     *)
(***************************************************************************)
\* files = sftp.listdir(folder)
SftpListdir ==
    /\ pc = "listdir"
    /\ UNCHANGED <<vvars, inputs, remote_size, sendv, downloaded, removed, remote>>
    /\ \/ /\ \E l \in Perms(SftpListing) : files' = l
          /\ idx' = 1
          /\ pc' = "loop"
          /\ UNCHANGED <<open, err, result, outcomes>>
       \/ /\ open' = CloseSsh(CloseSftp(open))
          /\ UNCHANGED <<files, idx>>
          /\ Raise("list", remote_size)

\* files = ftp.nlst(folder)
FtpNlst ==
    /\ pc = "nlst"
    /\ UNCHANGED <<vvars, inputs, remote_size, sendv, downloaded, removed, remote>>
    /\ \/ /\ \E l \in Perms(FtpListing) : files' = l
          /\ idx' = 1
          /\ pc' = "loop"
          /\ UNCHANGED <<open, err, result, outcomes>>
       \/ /\ open' = CloseFtp(open)
          /\ UNCHANGED <<files, idx>>
          /\ Raise("list", remote_size)

\* the end of the with blocks
CloseSession(h) ==
    IF ftp_method = "sftp" THEN CloseSsh(CloseSftp(h)) ELSE CloseFtp(h)

\* for f in files: the test each operation makes on an entry
ListNext ==
    /\ pc = "loop"
    /\ UNCHANGED <<vvars, inputs, remote_size, sendv, files, downloaded, removed,
                   remote, err, outcomes>>
    /\ IF idx > Len(files)
       THEN /\ open' = CloseSession(open)
            /\ pc' = "done"
            /\ result' = "ok"
            /\ idx' = idx
       ELSE /\ UNCHANGED <<open, result>>
            /\ IF op = "fetch"
               THEN IF Matches(files[idx], file_string)
                    THEN pc' = "get" /\ idx' = idx
                    ELSE pc' = "loop" /\ idx' = idx + 1
               ELSE IF IsTarget(files[idx], file_string)
                    THEN pc' = "remove" /\ idx' = idx
                    ELSE pc' = "loop" /\ idx' = idx + 1

\* the entry has been fetched: remove it when asked to, else go on
Fetched(p) ==
    /\ downloaded' = downloaded \cup {p}
    /\ IF ShouldRemove(delete_after)
       THEN pc' = "remove" /\ idx' = idx
       ELSE pc' = "loop" /\ idx' = idx + 1
    /\ UNCHANGED <<open, err, result, outcomes>>

\* SftpGet with a failed download swallowed: the loop goes on to the next entry
SftpGetSkipOnError ==
    /\ pc = "get" /\ ftp_method = "sftp"
    /\ UNCHANGED <<vvars, inputs, remote_size, sendv, files, removed, remote>>
    /\ \/ /\ IsFile(RemotePath(files[idx]))
          /\ Fetched(RemotePath(files[idx]))
       \/ /\ pc' = "loop"
          /\ idx' = idx + 1
          /\ UNCHANGED <<open, err, result, outcomes, downloaded>>

\* sftp.get(folder + f, f)
SftpGet ==
    /\ pc = "get" /\ ftp_method = "sftp"
    /\ UNCHANGED <<vvars, inputs, remote_size, sendv, files, removed, remote>>
    /\ \/ /\ IsFile(RemotePath(files[idx]))
          /\ Fetched(RemotePath(files[idx]))
       \/ /\ open' = CloseSession(open)
          /\ UNCHANGED <<idx, downloaded>>
          /\ Raise("transfer", remote_size)

\* with open(f, "wb") as local_file: ftp.retrbinary("RETR " + f, ...)
FtpRetr ==
    /\ pc = "get" /\ ftp_method = "ftp"
    /\ UNCHANGED <<vvars, inputs, remote_size, sendv, files, removed, remote>>
    /\ \/ /\ IsFile(RemotePath(files[idx]))
          /\ Fetched(RemotePath(files[idx]))
       \/ /\ open' = CloseSession(open)
          /\ UNCHANGED <<idx, downloaded>>
          /\ Raise("transfer", remote_size)

\* the entry has been removed from the server
Removed(p) ==
    /\ remote' = remote \ {p}
    /\ removed' = removed \cup {p}
    /\ pc' = "loop"
    /\ idx' = idx + 1
    /\ UNCHANGED <<open, err, result, outcomes>>

\* sftp.remove(folder + f)
SftpRemove ==
    /\ pc = "remove" /\ ftp_method = "sftp"
    /\ UNCHANGED <<vvars, inputs, remote_size, sendv, files, downloaded>>
    /\ \/ /\ IsFile(RemotePath(files[idx]))
          /\ Removed(RemotePath(files[idx]))
       \/ /\ open' = CloseSession(open)
          /\ UNCHANGED <<idx, removed, remote>>
          /\ Raise("remove", remote_size)

\* ftp.delete(f)
FtpDelete ==
    /\ pc = "remove" /\ ftp_method = "ftp"
    /\ UNCHANGED <<vvars, inputs, remote_size, sendv, files, downloaded>>
    /\ \/ /\ IsFile(RemotePath(files[idx]))
          /\ Removed(RemotePath(files[idx]))
       \/ /\ open' = CloseSession(open)
          /\ UNCHANGED <<idx, removed, remote>>
          /\ Raise("remove", remote_size)

(***************************************************************************)
(* The transfer client's specification.                                    *)
(***************************************************************************)
Init == TransferInit

Next ==
    \/ SendAttempt
    \/ SendExcept
    \/ FetchCall
    \/ DeleteCall
    \/ SftpConnect
    \/ SftpOpen
    \/ SftpPut
    \/ SftpStat
    \/ FtpConnect
    \/ FtpLogin
    \/ FtpStor
    \/ SftpListdir
    \/ FtpNlst
    \/ ListNext
    \/ SftpGet
    \/ FtpRetr
    \/ SftpRemove
    \/ FtpDelete

Spec == Init /\ [][Next]_vars

\* every call runs on: no cancellation, each step ends
FairSpec == Spec /\ WF_vars(Next)

TypeOK ==
    /\ pc \in {"call", "attempt", "loop", "except", "sftp_connect", "open_sftp", "put",
               "stat", "ftp_connect", "ftp_login", "stor", "listdir", "nlst",
               "get", "remove", "done"}
    /\ result \in {"none", "ok", "error"}
    /\ attempt \in 0..MaxAttempts
    /\ open.ssh >= 0 /\ open.sftp >= 0 /\ open.ftp >= 0
    /\ remote \subseteq AllPaths

(***************************************************************************)
(* The schema validator: the rule primitives of pandera.Check.             *)
(* Raw values are text: sequences of characters.                           *)
(***************************************************************************)
MaxRows == 2
MaxEdits == 2

StrLength(lo, hi) ==
    [kind |-> "str_length", lo |-> lo, hi |-> hi, frac |-> 0, vals |-> {}]
IsIn(vals) ==
    [kind |-> "isin", lo |-> 0, hi |-> 0, frac |-> 0, vals |-> vals]
\* in_range(lo, hi + frac / 100000): both bounds inclusive
InRange(lo, hi, frac) ==
    [kind |-> "in_range", lo |-> lo, hi |-> hi, frac |-> frac, vals |-> {}]
\* str_matches(r"^\d+$")
StrMatchesDigits ==
    [kind |-> "digits", lo |-> 0, hi |-> 0, frac |-> 0, vals |-> {}]
\* str_matches(r"^\d{1,n}(\.\d{1,m})?$")
StrMatchesDecimal(n, m) ==
    [kind |-> "decimal", lo |-> n, hi |-> m, frac |-> 0, vals |-> {}]

Digits == {"0", "1", "2", "3", "4", "5", "6", "7", "8", "9"}
DigitVal ==
    ("0" :> 0) @@ ("1" :> 1) @@ ("2" :> 2) @@ ("3" :> 3) @@ ("4" :> 4) @@
    ("5" :> 5) @@ ("6" :> 6) @@ ("7" :> 7) @@ ("8" :> 8) @@ ("9" :> 9)

\* one or more digits, and nothing else
IsDigits(s) == Len(s) >= 1 /\ \A i \in 1..Len(s) : s[i] \in Digits

\* 1 to n digits, then optionally a point and 1 to m digits
IsDecimal(s, n, m) ==
    \E k \in 1..n :
        /\ k <= Len(s)
        /\ IsDigits(SubSeq(s, 1, k))
        /\ \/ Len(s) = k
           \/ /\ Len(s) >= k + 2
              /\ s[k + 1] = "."
              /\ Len(s) - (k + 1) <= m
              /\ IsDigits(SubSeq(s, k + 2, Len(s)))

\* the text reads as a number
IsNumber(s) == IsDecimal(s, Len(s), Len(s))

RECURSIVE DigitsValue(_)
DigitsValue(s) ==
    IF s = << >> THEN 0
    ELSE 10 * DigitsValue(SubSeq(s, 1, Len(s) - 1)) + DigitVal[s[Len(s)]]

\* the position of the decimal point, or Len(s) + 1
PointAt(s) ==
    IF \E i \in 1..Len(s) : s[i] = "."
    THEN CHOOSE i \in 1..Len(s) : s[i] = "."
    ELSE Len(s) + 1

\* the integer part of a number, and its fraction in 1/100000
IntPart(s) == DigitsValue(SubSeq(s, 1, PointAt(s) - 1))
Pad5(d) == SubSeq(d \o <<"0", "0", "0", "0", "0">>, 1, 5)
FracPart(s) == DigitsValue(Pad5(SubSeq(s, PointAt(s) + 1, Len(s))))

\* lo <= value <= hi + frac / 100000, on the numbers themselves
WithinRange(s, r) ==
    /\ IntPart(s) >= r.lo
    /\ \/ IntPart(s) < r.hi
       \/ IntPart(s) = r.hi /\ FracPart(s) <= r.frac

\* the violation a rule reports on a value, or "none"
RuleVerdict(r, v) ==
    CASE r.kind = "str_length" ->
            IF r.lo <= Len(v) /\ Len(v) <= r.hi THEN "none" ELSE "LengthViolation"
      [] r.kind = "isin" ->
            IF v \in r.vals THEN "none" ELSE "EnumViolation"
      [] r.kind = "digits" ->
            IF IsDigits(v) THEN "none" ELSE "PatternViolation"
      [] r.kind = "decimal" ->
            IF IsDecimal(v, r.lo, r.hi) THEN "none" ELSE "PatternViolation"
      [] r.kind = "in_range" ->
            IF ~IsNumber(v) THEN "TypeMismatch"
            ELSE IF WithinRange(v, r) THEN "none" ELSE "RangeViolation"

(***************************************************************************)
(* The field checks and the two models of src/vippy/models.py.  A field    *)
(* declared without required=True is optional.                             *)
(***************************************************************************)
arstatus_check == <<StrLength(1, 1), IsIn({<<"1">>, <<"3">>})>>
artype_check == <<StrLength(1, 1)>>
codedate_check == <<InRange(19700101, 20991231, 0)>>
company_check == <<StrLength(1, 5)>>
deliverydate_check == <<InRange(19700101, 20991231, 0)>>
depletionallowance_check == <<InRange(0, 999999, 99999), StrMatchesDecimal(6, 5)>>
\* depositamount_check with the bounds of three fractional digits
depositamount_check_3frac == <<InRange(0, 9999999, 99900), StrMatchesDecimal(7, 3)>>
depositamount_check == <<InRange(0, 9999999, 99000), StrMatchesDecimal(7, 2)>>
deposittype_check == <<StrLength(1, 1)>>
discountamount_check == <<InRange(0, 9999999, 99000), StrMatchesDecimal(7, 2)>>
discountcode_check == <<StrLength(1, 10)>>
discountgroup_check == <<StrLength(1, 10)>>
discountlevel_check == <<StrLength(1, 1)>>
discountlevel10_check == <<StrLength(10, 10)>>
driver_check == <<StrLength(1, 5)>>
flpgroup_check == <<StrLength(1, 5)>>
helper_check == <<StrLength(1, 5)>>
ignoredeliverycharge_check == <<StrLength(1, 1), IsIn({<<"Y">>, <<"N">>})>>
invoicecomments_check == <<StrLength(1, 560)>>
invoicedate_check == <<InRange(19700101, 20991231, 0)>>
invoicenumber_check == <<StrLength(1, 15), StrMatchesDigits>>
invoicetype_check == <<StrLength(1, 1)>>
linenumber_check == <<StrLength(3, 3), StrMatchesDigits>>
loadnumber_check == <<StrLength(8, 8)>>
onhandquantity_check == <<StrLength(7, 7)>>
orderaction_check == <<StrLength(1, 2)>>
ordercost_check == <<InRange(0, 999999, 99999), StrMatchesDecimal(7, 2)>>
orderdate_check == <<InRange(19700101, 20991231, 0)>>
ordermode_check == <<StrLength(1, 1), IsIn({<<"0">>, <<"1">>, <<"2">>, <<"3">>})>>
ordernumber_check == <<StrLength(1, 9)>>
orderprice_check == <<InRange(0, 999999999, 99900), StrMatchesDecimal(9, 3)>>
ordertype_check == <<StrLength(1, 1), IsIn({<<"S">>, <<"T">>})>>
orderquantity_check == <<StrLength(5, 5)>>
outquantity_check == <<StrLength(5, 5)>>
partialcasequantity_check == <<StrLength(2, 2)>>
performancediscountanswer_check == <<StrLength(1, 1), IsIn({<<"Y">>, <<"N">>})>>
ponumber_check == <<StrLength(1, 15)>>
postoffamount_check == <<InRange(0, 9999999, 99000), StrMatchesDecimal(7, 2)>>
pricegroup_check == <<StrLength(1, 5)>>
productcode_check == <<StrLength(6, 6)>>
reasoncode_check == <<StrLength(2, 2)>>
retailerid_check == <<StrLength(5, 5)>>
salesrep_check == <<StrLength(1, 5)>>
specialprice_check == <<StrLength(1, 1), IsIn({<<"0">>, <<"1">>})>>
subpricegroup_check == <<StrLength(1, 5)>>
trucktype_check == <<StrLength(1, 1)>>
unitofmeasure_check == <<StrLength(2, 2), IsIn({<<"C", "W">>, <<"C", "B">>})>>
voidflag_check == <<StrLength(1, 1), IsIn({<<"Y">>, <<"N">>})>>
voidreason_check == <<StrLength(1, 2)>>
warehouse_check == <<StrLength(1, 5)>>
OrderModel ==
    << [name |-> "loadnumber", dtype |-> "String", checks |-> loadnumber_check, required |-> FALSE],
       [name |-> "retailerid", dtype |-> "String", checks |-> retailerid_check, required |-> TRUE],
       [name |-> "driver", dtype |-> "String", checks |-> driver_check, required |-> FALSE],
       [name |-> "linenumber", dtype |-> "String", checks |-> linenumber_check, required |-> TRUE],
       [name |-> "unitofmeasure", dtype |-> "String", checks |-> unitofmeasure_check, required |-> TRUE],
       [name |-> "productcode", dtype |-> "String", checks |-> productcode_check, required |-> TRUE],
       [name |-> "orderquantity", dtype |-> "String", checks |-> orderquantity_check, required |-> TRUE],
       [name |-> "orderprice", dtype |-> "Float", checks |-> orderprice_check, required |-> FALSE],
       [name |-> "discountamount", dtype |-> "Float", checks |-> discountamount_check, required |-> FALSE],
       [name |-> "postoffamount", dtype |-> "Float", checks |-> postoffamount_check, required |-> FALSE],
       [name |-> "depositamount", dtype |-> "Float", checks |-> depositamount_check, required |-> FALSE],
       [name |-> "specialprice", dtype |-> "String", checks |-> specialprice_check, required |-> FALSE],
       [name |-> "voidflag", dtype |-> "String", checks |-> voidflag_check, required |-> FALSE],
       [name |-> "reasoncode", dtype |-> "String", checks |-> reasoncode_check, required |-> FALSE],
       [name |-> "codedate", dtype |-> "Int", checks |-> codedate_check, required |-> FALSE],
       [name |-> "deliverydate", dtype |-> "Int", checks |-> deliverydate_check, required |-> TRUE],
       [name |-> "ponumber", dtype |-> "String", checks |-> ponumber_check, required |-> FALSE],
       [name |-> "company", dtype |-> "String", checks |-> company_check, required |-> TRUE],
       [name |-> "warehouse", dtype |-> "String", checks |-> warehouse_check, required |-> TRUE],
       [name |-> "ordernumber", dtype |-> "String", checks |-> ordernumber_check, required |-> FALSE],
       [name |-> "performancediscountanswer", dtype |-> "String", checks |-> performancediscountanswer_check, required |-> FALSE],
       [name |-> "discountcode", dtype |-> "String", checks |-> discountcode_check, required |-> FALSE],
       [name |-> "discountgroup", dtype |-> "String", checks |-> discountgroup_check, required |-> FALSE],
       [name |-> "discountlevel", dtype |-> "String", checks |-> discountlevel_check, required |-> FALSE],
       [name |-> "ignoredeliverycharge", dtype |-> "String", checks |-> ignoredeliverycharge_check, required |-> FALSE],
       [name |-> "salesrep", dtype |-> "String", checks |-> salesrep_check, required |-> FALSE],
       [name |-> "orderdate", dtype |-> "Int", checks |-> orderdate_check, required |-> FALSE],
       [name |-> "invoicecomments", dtype |-> "String", checks |-> invoicecomments_check, required |-> FALSE],
       [name |-> "orderaction", dtype |-> "String", checks |-> orderaction_check, required |-> FALSE],
       [name |-> "ordertype", dtype |-> "String", checks |-> ordertype_check, required |-> FALSE] >>
InvoiceModel ==
    << [name |-> "retailerid", dtype |-> "String", checks |-> retailerid_check, required |-> TRUE],
       [name |-> "invoicenumber", dtype |-> "String", checks |-> invoicenumber_check, required |-> TRUE],
       [name |-> "invoicedate", dtype |-> "Int", checks |-> invoicedate_check, required |-> TRUE],
       [name |-> "arstatus", dtype |-> "String", checks |-> arstatus_check, required |-> FALSE],
       [name |-> "ordertype", dtype |-> "String", checks |-> ordertype_check, required |-> FALSE],
       [name |-> "loadnumber", dtype |-> "String", checks |-> loadnumber_check, required |-> FALSE],
       [name |-> "driver", dtype |-> "String", checks |-> driver_check, required |-> FALSE],
       [name |-> "helper1", dtype |-> "String", checks |-> helper_check, required |-> FALSE],
       [name |-> "helper2", dtype |-> "String", checks |-> helper_check, required |-> FALSE],
       [name |-> "helper3", dtype |-> "String", checks |-> helper_check, required |-> FALSE],
       [name |-> "helper4", dtype |-> "String", checks |-> helper_check, required |-> FALSE],
       [name |-> "helper5", dtype |-> "String", checks |-> helper_check, required |-> FALSE],
       [name |-> "company", dtype |-> "String", checks |-> company_check, required |-> FALSE],
       [name |-> "warehouse", dtype |-> "String", checks |-> warehouse_check, required |-> FALSE],
       [name |-> "flpgroup", dtype |-> "String", checks |-> flpgroup_check, required |-> FALSE],
       [name |-> "pricegroup", dtype |-> "String", checks |-> pricegroup_check, required |-> FALSE],
       [name |-> "subpricegroup", dtype |-> "String", checks |-> subpricegroup_check, required |-> FALSE],
       [name |-> "salesrep", dtype |-> "String", checks |-> salesrep_check, required |-> FALSE],
       [name |-> "voidflag", dtype |-> "String", checks |-> voidflag_check, required |-> FALSE],
       [name |-> "voidreason", dtype |-> "String", checks |-> voidreason_check, required |-> FALSE],
       [name |-> "invoicetype", dtype |-> "String", checks |-> invoicetype_check, required |-> FALSE],
       [name |-> "artype", dtype |-> "String", checks |-> artype_check, required |-> FALSE],
       [name |-> "trucktype", dtype |-> "String", checks |-> trucktype_check, required |-> FALSE],
       [name |-> "ponumber", dtype |-> "String", checks |-> ponumber_check, required |-> FALSE],
       [name |-> "linenumber", dtype |-> "String", checks |-> linenumber_check, required |-> FALSE],
       [name |-> "productcode", dtype |-> "String", checks |-> productcode_check, required |-> FALSE],
       [name |-> "ordermode", dtype |-> "String", checks |-> ordermode_check, required |-> FALSE],
       [name |-> "outquantity", dtype |-> "String", checks |-> outquantity_check, required |-> FALSE],
       [name |-> "onhandquantity", dtype |-> "String", checks |-> onhandquantity_check, required |-> FALSE],
       [name |-> "partialcasequantity", dtype |-> "String", checks |-> partialcasequantity_check, required |-> FALSE],
       [name |-> "returnreasoncode", dtype |-> "String", checks |-> reasoncode_check, required |-> FALSE],
       [name |-> "codedate", dtype |-> "Int", checks |-> codedate_check, required |-> FALSE],
       [name |-> "ordercost", dtype |-> "Float", checks |-> ordercost_check, required |-> FALSE],
       [name |-> "depositamount", dtype |-> "Float", checks |-> depositamount_check, required |-> FALSE],
       [name |-> "deposittype", dtype |-> "String", checks |-> deposittype_check, required |-> FALSE],
       [name |-> "depletionallowance", dtype |-> "Float", checks |-> depletionallowance_check, required |-> FALSE],
       [name |-> "postoffamount", dtype |-> "Float", checks |-> postoffamount_check, required |-> FALSE],
       [name |-> "discountamount", dtype |-> "Float", checks |-> discountamount_check, required |-> FALSE],
       [name |-> "discountlevel1", dtype |-> "String", checks |-> discountlevel10_check, required |-> FALSE],
       [name |-> "discountlevel2", dtype |-> "String", checks |-> discountlevel10_check, required |-> FALSE],
       [name |-> "discountlevel3", dtype |-> "String", checks |-> discountlevel10_check, required |-> FALSE],
       [name |-> "discountlevel4", dtype |-> "String", checks |-> discountlevel10_check, required |-> FALSE],
       [name |-> "discountlevel", dtype |-> "String", checks |-> discountlevel_check, required |-> FALSE],
       [name |-> "specialprice", dtype |-> "String", checks |-> specialprice_check, required |-> FALSE] >>

(***************************************************************************)
(* The field checks and the OrderModel of src/models.py, the earlier       *)
(* revision of the module.                                                 *)
(***************************************************************************)
models_codedate_check == <<InRange(19700101, 20991231, 0)>>
models_company_check == <<StrLength(1, 5)>>
models_deliverydate_check == <<InRange(19700101, 20991231, 0)>>
models_depositamount_check == <<InRange(0, 9999999, 99000), StrMatchesDecimal(7, 2)>>
models_discountamount_check == <<InRange(0, 9999999, 99000), StrMatchesDecimal(7, 2)>>
models_discountcode_check == <<StrLength(1, 10)>>
models_discountgroup_check == <<StrLength(1, 10)>>
models_discountlevel_check == <<StrLength(1, 1)>>
models_driver_check == <<StrLength(5, 5)>>
models_ignoredeliverycharge_check == <<StrLength(1, 1), IsIn({<<"Y">>, <<"N">>})>>
models_invoicecomments_check == <<StrLength(1, 560)>>
models_linenumber_check == <<StrLength(3, 3), StrMatchesDigits>>
models_loadnumber_check == <<StrLength(8, 8)>>
models_orderaction_check == <<StrLength(1, 2)>>
models_orderdate_check == <<InRange(19700101, 20991231, 0)>>
models_ordermode_check == <<StrLength(1, 1), IsIn({<<"0">>, <<"1">>, <<"2">>, <<"3">>})>>
models_ordernumber_check == <<StrLength(1, 9)>>
models_orderprice_check == <<InRange(0, 999999999, 99900), StrMatchesDecimal(9, 3)>>
models_ordertype_check == <<StrLength(1, 1), IsIn({<<"S">>, <<"T">>})>>
models_orderquantity_check == <<StrLength(5, 5)>>
models_performancediscountanswer_check == <<StrLength(1, 1), IsIn({<<"Y">>, <<"N">>})>>
models_ponumber_check == <<StrLength(1, 15)>>
models_postoffamount_check == <<InRange(0, 9999999, 99000), StrMatchesDecimal(7, 2)>>
models_productcode_check == <<StrLength(6, 6)>>
models_reasoncode_check == <<StrLength(2, 2)>>
models_retailerid_check == <<StrLength(5, 5)>>
models_salesrep_check == <<StrLength(1, 5)>>
models_specialprice_check == <<StrLength(1, 1), IsIn({<<"0">>, <<"1">>})>>
models_unitofmeasure_check == <<StrLength(2, 2), IsIn({<<"C", "W">>, <<"C", "B">>})>>
models_voidflag_check == <<StrLength(1, 1), IsIn({<<"Y">>, <<"N">>})>>
models_warehouse_check == <<StrLength(1, 5)>>
models_OrderModel ==
    << [name |-> "loadnumber", dtype |-> "String", checks |-> models_loadnumber_check, required |-> FALSE],
       [name |-> "retailerid", dtype |-> "String", checks |-> models_retailerid_check, required |-> TRUE],
       [name |-> "driver", dtype |-> "String", checks |-> models_driver_check, required |-> FALSE],
       [name |-> "linenumber", dtype |-> "String", checks |-> models_linenumber_check, required |-> TRUE],
       [name |-> "unitofmeasure", dtype |-> "String", checks |-> models_unitofmeasure_check, required |-> TRUE],
       [name |-> "productcode", dtype |-> "String", checks |-> models_productcode_check, required |-> TRUE],
       [name |-> "orderquantity", dtype |-> "String", checks |-> models_orderquantity_check, required |-> TRUE],
       [name |-> "orderprice", dtype |-> "Float", checks |-> models_orderprice_check, required |-> FALSE],
       [name |-> "discountamount", dtype |-> "Float", checks |-> models_discountamount_check, required |-> FALSE],
       [name |-> "postoffamount", dtype |-> "Float", checks |-> models_postoffamount_check, required |-> FALSE],
       [name |-> "depositamount", dtype |-> "Float", checks |-> models_depositamount_check, required |-> FALSE],
       [name |-> "specialprice", dtype |-> "String", checks |-> models_specialprice_check, required |-> FALSE],
       [name |-> "voidflag", dtype |-> "String", checks |-> models_voidflag_check, required |-> FALSE],
       [name |-> "reasoncode", dtype |-> "String", checks |-> models_reasoncode_check, required |-> FALSE],
       [name |-> "codedate", dtype |-> "Int", checks |-> models_codedate_check, required |-> FALSE],
       [name |-> "deliverydate", dtype |-> "Int", checks |-> models_deliverydate_check, required |-> TRUE],
       [name |-> "ponumber", dtype |-> "String", checks |-> models_ponumber_check, required |-> FALSE],
       [name |-> "company", dtype |-> "String", checks |-> models_company_check, required |-> TRUE],
       [name |-> "warehouse", dtype |-> "String", checks |-> models_warehouse_check, required |-> TRUE],
       [name |-> "ordernumber", dtype |-> "String", checks |-> models_ordernumber_check, required |-> FALSE],
       [name |-> "performancediscountanswer", dtype |-> "String", checks |-> models_performancediscountanswer_check, required |-> FALSE],
       [name |-> "discountcode", dtype |-> "String", checks |-> models_discountcode_check, required |-> FALSE],
       [name |-> "discountgroup", dtype |-> "String", checks |-> models_discountgroup_check, required |-> FALSE],
       [name |-> "discountlevel", dtype |-> "String", checks |-> models_discountlevel_check, required |-> FALSE],
       [name |-> "ignoredeliverycharge", dtype |-> "String", checks |-> models_ignoredeliverycharge_check, required |-> FALSE],
       [name |-> "salesrep", dtype |-> "String", checks |-> models_salesrep_check, required |-> FALSE],
       [name |-> "orderdate", dtype |-> "Int", checks |-> models_orderdate_check, required |-> FALSE],
       [name |-> "invoicecomments", dtype |-> "String", checks |-> models_invoicecomments_check, required |-> FALSE],
       [name |-> "orderaction", dtype |-> "String", checks |-> models_orderaction_check, required |-> FALSE],
       [name |-> "ordertype", dtype |-> "String", checks |-> models_ordertype_check, required |-> FALSE] >>

\* the schema-level rules "if trigger is present, field is required": neither
\* model declares one (InvoiceModel names three in comments only)
ConditionalRules(s) == {}

Model(s) == IF s = "order" THEN OrderModel ELSE InvoiceModel

(***************************************************************************)
(* The validation engine.                                                  *)
(***************************************************************************)
\* a field is present in a row when the row holds it, and not as empty text
Present(f, row) == f \in DOMAIN row /\ row[f] # << >>

RECURSIVE RuleViolations(_, _, _, _)
\* every rule of a binding is evaluated, each failing one reported
RuleViolations(b, k, i, v) ==
    IF k > Len(b.checks) THEN << >>
    ELSE (IF RuleVerdict(b.checks[k], v) = "none" THEN << >>
          ELSE << [row |-> i, field |-> b.name,
                   rule |-> RuleVerdict(b.checks[k], v)] >>)
         \o RuleViolations(b, k + 1, i, v)

\* IsRequired with the flag ignored: no field is required
IsRequiredNever(b) == FALSE

\* pandera.Field(..., required=True)
IsRequired(b) == b.required

\* FieldViolations without the skip: the rules are evaluated on the empty
\* value of a missing field as well
FieldViolationsNoSkip(b, i, row) ==
    IF ~Present(b.name, row)
    THEN (IF b.required
          THEN << [row |-> i, field |-> b.name, rule |-> "MissingRequiredField"] >>
          ELSE << >>)
         \o RuleViolations(b, 1, i, << >>)
    ELSE RuleViolations(b, 1, i, row[b.name])

\* one binding on one row
FieldViolations(b, i, row) ==
    IF ~Present(b.name, row)
    THEN IF IsRequired(b)
         THEN << [row |-> i, field |-> b.name, rule |-> "MissingRequiredField"] >>
         ELSE << >>
    ELSE RuleViolations(b, 1, i, row[b.name])

RECURSIVE FieldsViolations(_, _, _, _)
\* the bindings in declaration order
FieldsViolations(M, k, i, row) ==
    IF k > Len(M) THEN << >>
    ELSE FieldViolations(M[k], i, row) \o FieldsViolations(M, k + 1, i, row)

RECURSIVE SetToSeq(_)
SetToSeq(S) ==
    IF S = {} THEN << >>
    ELSE LET x == CHOOSE y \in S : TRUE IN <<x>> \o SetToSeq(S \ {x})

\* the cross-field rules, after the per-field checks
ConditionalViolations(s, i, row) ==
    SetToSeq({[row |-> i, field |-> c.field,
               rule |-> "ConditionalRequirementViolation"] :
                 c \in {d \in ConditionalRules(s) :
                          Present(d.trigger, row) /\ ~Present(d.field, row)}})

\* the violations of row i (0-based in the report)
RowViolations(s, i, row) ==
    FieldsViolations(Model(s), 1, i, row) \o ConditionalViolations(s, i, row)

(***************************************************************************)
(* The datasets a caller passes: a row is a base row changed in at most    *)
(* MaxEdits fields; further rows are base rows.                            *)
(***************************************************************************)
Schemas == {"order", "invoice"}

FieldNames(M) == {M[k].name : k \in 1..Len(M)}
Binding(M, f) == M[CHOOSE k \in 1..Len(M) : M[k].name = f]

\* the fields the claims call statically required
ClaimedRequired(s) ==
    IF s = "order"
    THEN {"retailerid", "linenumber", "deliverydate", "company", "warehouse"}
    ELSE {"invoicenumber", "invoicedate"}

\* the fields the claims call conditionally required, and their trigger
ClaimedConditional == {"unitofmeasure", "orderquantity", "orderprice"}
Trigger == "productcode"

\* the fields a row is varied in
Focus(s) ==
    IF s = "order"
    THEN {"retailerid", "linenumber", "unitofmeasure", "productcode",
          "orderquantity", "orderprice", "driver"}
    ELSE {"retailerid", "invoicenumber", "invoicedate", "productcode",
          "unitofmeasure", "orderquantity", "orderprice"}

TextPool ==
    {<<"1">>, <<"Y">>, <<"S">>, <<"C", "W">>, <<"0", "0", "1">>,
     <<"1", "2", "3", "4", "5">>, <<"1", "2", "3", "4", "5", "6">>,
     <<"1", "2", "3", "4", "5", "6", "7">>,
     <<"1", "2", "3", "4", "5", "6", "7", "8">>,
     <<"2", "0", "2", "4", "0", "1", "0", "1">>,
     <<"1", "2", "3", "4", "5", "6", "7", "8", "9", "0">>,
     <<"1", ".", "5">>}

\* a value that satisfies every rule of the binding
ValidSample(b) ==
    CHOOSE v \in TextPool :
        \A k \in 1..Len(b.checks) : RuleVerdict(b.checks[k], v) = "none"

\* the values an edit may give a field: empty, a good value, another value
EditValues(s, f) ==
    {<< >>, <<"x", "x", "x", "x">>}
        \cup (IF f \in FieldNames(Model(s))
              THEN {ValidSample(Binding(Model(s), f))}
              ELSE {ValidSample(Binding(OrderModel, f))})

\* every field of the schema, with a good value
FullRow(s) ==
    [f \in FieldNames(Model(s)) |-> ValidSample(Binding(Model(s), f))]

\* the fields the claims call statically required, with good values
MinimalRow(s) ==
    [f \in ClaimedRequired(s) |-> ValidSample(Binding(Model(s), f))]

BaseRows(s) == {FullRow(s), MinimalRow(s)}

\* row with the fields of gone removed and those of set given set's values
Edited(row, gone, set) ==
    [f \in (DOMAIN row \ gone) \cup DOMAIN set |->
        IF f \in DOMAIN set THEN set[f] ELSE row[f]]

Rows(s) ==
    UNION {UNION {UNION {
        {Edited(base, gone, set) :
            set \in {g \in [E \ gone -> UNION {EditValues(s, f) : f \in E}] :
                        \A f \in E \ gone : g[f] \in EditValues(s, f)}} :
        gone \in SUBSET E} :
        E \in {F \in SUBSET Focus(s) : Cardinality(F) <= MaxEdits}} :
        base \in BaseRows(s)}

RECURSIVE Tails(_, _)
\* the sequences of at most n base rows
Tails(s, n) ==
    IF n = 0 THEN {<< >>}
    ELSE {<< >>} \cup {<<r>> \o t : r \in BaseRows(s), t \in Tails(s, n - 1)}

Datasets(s) == {<<r>> \o t : r \in Rows(s), t \in Tails(s, MaxRows - 1)}

(***************************************************************************)
(* validate(dataset): row by row, then the verdict.                        *)
(***************************************************************************)
ValidateInit ==
    /\ schema \in Schemas
    /\ dataset \in Datasets(schema)
    /\ rowi = 1
    /\ violations = << >>
    /\ vresult = "none"
    /\ op = "validate"
    /\ ftp_method = "sftp"
    /\ folder = Root
    /\ file_string = << >>
    /\ delete_after = FALSE
    /\ nlst_style = "path"
    /\ local_size = 1
    /\ remote_size = 0
    /\ remote = {}
    /\ remote0 = {}
    /\ pc = "done"
    /\ attempt = 0
    /\ attempts = 0
    /\ waits = 0
    /\ clock = 0
    /\ outcomes = << >>
    /\ err = NoErr
    /\ result = "none"
    /\ open = NoneOpen
    /\ files = << >>
    /\ idx = 1
    /\ downloaded = {}
    /\ removed = {}

\* every rule of every binding on the next row; the violations accumulate
ValidateRow ==
    /\ vresult = "none"
    /\ rowi \in 1..Len(dataset)
    /\ violations' = violations \o RowViolations(schema, rowi - 1, dataset[rowi])
    /\ rowi' = rowi + 1
    /\ UNCHANGED <<tvars, schema, dataset, vresult>>

\* "valid" iff no violation was found
ValidateDone ==
    /\ vresult = "none"
    /\ schema \in Schemas
    /\ rowi > Len(dataset)
    /\ vresult' = (IF violations = << >> THEN "valid" ELSE "invalid")
    /\ UNCHANGED <<tvars, schema, dataset, rowi, violations>>

ValidateNext == ValidateRow \/ ValidateDone

ValidateSpec == ValidateInit /\ [][ValidateNext]_vars

(***************************************************************************)
(* validate on one row that holds one decimal field at a chosen text: the  *)
(* numbers next to the rules' bounds, and texts that are no numbers.       *)
(***************************************************************************)
MaxIntDigits == 8
MaxFracDigits == 5

\* the character c, n times
Rep(c, n) == [i \in 1..n |-> c]

\* the integer parts of d digits: 9...9 and 10...0, and 0
IntTexts ==
    {<<"0">>} \cup {Rep("9", d) : d \in 1..MaxIntDigits}
              \cup {<<"1">> \o Rep("0", d - 1) : d \in 1..MaxIntDigits}

\* the fractions of d digits: 0...0, 9...9 and 0...01
FracTexts ==
    UNION {{Rep("0", d), Rep("9", d), Rep("0", d - 1) \o <<"1">>} :
              d \in 1..MaxFracDigits}

\* texts that are no decimal numbers
NonNumbers ==
    {<<"x">>, <<".", "5">>, <<"5", ".">>, <<"1", ".", "2", ".", "3">>,
     <<"-", "1">>}

DecimalTexts ==
    IntTexts \cup {n \o <<".">> \o f : n \in IntTexts, f \in FracTexts}
             \cup NonNumbers

\* the fields of a model declared Series[pandera.Float]
DecimalFields(s) ==
    {Model(s)[k].name : k \in {j \in 1..Len(Model(s)) : Model(s)[j].dtype = "Float"}}

\* the transfer client is idle while a dataset is validated
TransferIdle ==
    /\ op = "validate"
    /\ ftp_method = "sftp"
    /\ folder = Root
    /\ file_string = << >>
    /\ delete_after = FALSE
    /\ nlst_style = "path"
    /\ local_size = 1
    /\ remote_size = 0
    /\ remote = {}
    /\ remote0 = {}
    /\ pc = "done"
    /\ attempt = 0
    /\ attempts = 0
    /\ waits = 0
    /\ clock = 0
    /\ outcomes = << >>
    /\ err = NoErr
    /\ result = "none"
    /\ open = NoneOpen
    /\ files = << >>
    /\ idx = 1
    /\ downloaded = {}
    /\ removed = {}

\* the fields declared required=True, with good values
RequiredRow(s) ==
    [f \in {Model(s)[k].name : k \in {j \in 1..Len(Model(s)) : Model(s)[j].required}}
        |-> ValidSample(Binding(Model(s), f))]

\* one row: the required fields and one decimal field at a chosen text
ValueInit ==
    /\ schema \in Schemas
    /\ \E f \in DecimalFields(schema) : \E v \in DecimalTexts :
          dataset = << Edited(RequiredRow(schema), {}, (f :> v)) >>
    /\ rowi = 1
    /\ violations = << >>
    /\ vresult = "none"
    /\ TransferIdle

ValueSpec == ValueInit /\ [][ValidateNext]_vars

(***************************************************************************)
(* Claims about the transfer client.                                       *)
(***************************************************************************)
\* the first n attempts have finished and all failed
AllFailed(n) == Len(outcomes) >= n /\ \A i \in 1..n : ~outcomes[i].ok

\* the errors a server or a network causes
TransientKinds == {"connect", "auth", "channel", "transfer", "stat", "list", "remove"}

\* C1: a send whose first two attempts fail and whose third succeeds returns
\* without error after exactly 2 waits; a send whose three attempts all fail
\* raises the error of the third attempt, with no fourth attempt and no wait
\* after the third failure.
C1_SendRetry ==
    (op = "send" /\ AllFailed(2) /\ Len(outcomes) = 3) =>
        IF outcomes[3].ok
        THEN pc = "done" /\ result = "ok" /\ waits = 2 /\ attempts = 3
        ELSE /\ attempts = 3
             /\ waits = 2
             /\ pc \in {"except", "done"}
             /\ pc = "done" =>
                    /\ result = "error"
                    /\ err = [kind |-> outcomes[3].kind, attempt |-> 2]

\* C1 witness: two failures, then a third attempt that succeeded
C1_Witness ==
    /\ op = "send" /\ pc = "done" /\ result = "ok"
    /\ AllFailed(2) /\ Len(outcomes) = 3 /\ outcomes[3].ok
    /\ waits = 2

\* C2: a send with a selector that is neither sftp nor ftp makes one attempt,
\* waits never and is not retried.
C2_InvalidSelectorNotRetried ==
    (op = "send" /\ ftp_method \notin {"sftp", "ftp"}) =>
        attempts <= 1 /\ waits = 0

\* C3 as claimed: in every send, an attempt that leaves a remote file of
\* another size than the local file is a failed attempt, and a send that
\* returned normally left a remote file of the local file's size.
C3_SizeMismatchFails ==
    op = "send" =>
        /\ \A i \in 1..Len(outcomes) : outcomes[i].ok => outcomes[i].equal
        /\ (pc = "done" /\ result = "ok") => remote_size = local_size

\* C3 amended: the same of every send over sftp (upload_ftp compares no
\* sizes): a size mismatch raises, so the attempt enters the except path.
C3_SftpSizeMismatchFails ==
    (op = "send" /\ ftp_method = "sftp") =>
        /\ \A i \in 1..Len(outcomes) : outcomes[i].ok => outcomes[i].equal
        /\ (pc = "done" /\ result = "ok") => remote_size = local_size
        /\ \A i \in 1..Len(outcomes) :
               outcomes[i].kind = "size_mismatch" => ~outcomes[i].ok

\* C3 witness: an sftp send that met a size mismatch, was retried and succeeded
C3_Witness ==
    /\ op = "send" /\ ftp_method = "sftp" /\ pc = "done" /\ result = "ok"
    /\ \E i \in 1..Len(outcomes) : outcomes[i].kind = "size_mismatch"

\* C4: a send makes between 1 and 3 attempts; a 60-second wait happens only
\* after a failed attempt and before the next one, so that a finished send
\* has waited attempts - 1 times (at most 2); no attempt follows a successful
\* one; and every send ends, in success or with the last error.
C4_BoundedRetry ==
    /\ [](op = "send" =>
            /\ attempts <= 3 /\ waits <= 2
            /\ Len(outcomes) <= attempts
            /\ waits \in {attempts - 1, attempts}
            /\ (waits = attempts) => pc = "attempt"
            /\ \A i \in 1..(Len(outcomes) - 1) : ~outcomes[i].ok
            /\ pc = "done" =>
                   /\ attempts >= 1
                   /\ waits = attempts - 1
                   /\ Len(outcomes) = attempts
                   /\ result = (IF outcomes[attempts].ok THEN "ok" ELSE "error"))
    /\ [][op = "send" /\ waits' # waits =>
              /\ waits' = waits + 1
              /\ clock' = clock + 60
              /\ pc = "except" /\ pc' = "attempt"
              /\ ~outcomes[Len(outcomes)].ok
              /\ attempts < 3]_vars
    /\ (op = "send") ~> (pc = "done")

\* C4 witness: a send that used all three attempts and raised
C4_Witness ==
    /\ op = "send" /\ pc = "done" /\ result = "error"
    /\ attempts = 3 /\ waits = 2 /\ clock = 120

\* C5: once an operation has returned or raised, no network handle that it
\* opened is still open.
C5_SessionsClosed ==
    pc \in {"done", "except", "attempt"} => open = NoneOpen

\* C6: a fetch over sftp or ftp in which no step failed has downloaded
\* exactly the files of the remote folder whose names start with the prefix.
C6_FetchExactlyPrefixed ==
    (op = "fetch" /\ ftp_method \in {"sftp", "ftp"}
        /\ pc = "done" /\ result = "ok") =>
        downloaded = {folder \o n : n \in {m \in Names :
                          folder \o m \in remote0 /\ StartsWith(m, file_string)}}

\* C7: a fetch removes a remote file only when delete_after is set and that
\* file has been downloaded; without delete_after the remote files are those
\* the call found.
C7_RemoveOnlyAfterDownload ==
    op = "fetch" =>
        /\ removed \subseteq downloaded
        /\ remote = remote0 \ removed
        /\ removed # {} => delete_after
        /\ ~delete_after => remote = remote0

\* C7 witness: a fetch that removed a file it had downloaded, and then failed
\* on a later one
C7_Witness ==
    /\ op = "fetch" /\ pc = "done" /\ result = "error"
    /\ removed # {} /\ err.kind = "transfer"

\* C8 as claimed: a delete over sftp or ftp that no server error stopped has
\* removed the file of that exact name and nothing else.
C8_DeleteExactEitherProtocol ==
    (op = "delete" /\ ftp_method \in {"sftp", "ftp"} /\ pc = "done"
        /\ err.kind \notin TransientKinds) =>
        remote = remote0 \ {folder \o file_string}

\* C8 amended: delete_sftp, the one delete operation there is, removes the
\* file of that exact name and leaves every other file, whether or not it
\* runs to the end; no delete exists for ftp.
C8_DeleteSftpExact ==
    op = "delete" =>
        /\ remote0 \ remote \subseteq {folder \o file_string}
        /\ remote \subseteq remote0
        /\ (pc = "done" /\ result = "ok") =>
               /\ ftp_method = "sftp"
               /\ remote = remote0 \ {folder \o file_string}

\* C8 witness: the file a was removed and the file ab beside it was kept
C8_Witness ==
    /\ op = "delete" /\ pc = "done" /\ result = "ok"
    /\ file_string = <<"a">>
    /\ folder \o <<"a">> \in remote0
    /\ folder \o <<"a">> \notin remote
    /\ folder \o <<"a", "b">> \in remote

\* entry j of the listing has been downloaded / removed
Got(j) == RemotePath(files[j]) \in downloaded
Gone(j) == RemotePath(files[j]) \in removed

ReportsMissing(k, i, f) ==
    /\ violations[k].row = i - 1
    /\ violations[k].field = f
    /\ violations[k].rule \in {"MissingRequiredField",
                               "ConditionalRequirementViolation"}

\* every value a row holds for a field of the schema satisfies the field's rules
ValuesGood(s, row) ==
    \A k \in 1..Len(Model(s)) :
        Present(Model(s)[k].name, row) =>
            \A j \in 1..Len(Model(s)[k].checks) :
                RuleVerdict(Model(s)[k].checks[j], row[Model(s)[k].name]) = "none"

\* C9: in both schemas unitofmeasure, orderquantity and orderprice are required
\* of a row exactly when its productcode is present: a row without one of them
\* is reported for it if productcode is present and non-empty, and is not
\* reported for it if productcode is empty.
C9_ConditionalRequirement ==
    vresult # "none" =>
        \A i \in 1..Len(dataset) : \A f \in ClaimedConditional :
            ~Present(f, dataset[i]) =>
                ((\E k \in 1..Len(violations) : ReportsMissing(k, i, f))
                    <=> Present(Trigger, dataset[i]))

\* C10: a dataset whose rows hold every statically required field (order:
\* retailerid, linenumber, deliverydate, company, warehouse; invoice:
\* invoicenumber, invoicedate), no productcode, and good values in the fields
\* they hold, whatever optional fields they leave out, validates as valid.
C10_OptionalAbsentValid ==
    (/\ vresult # "none"
     /\ \A i \in 1..Len(dataset) :
            /\ \A f \in ClaimedRequired(schema) : Present(f, dataset[i])
            /\ ~Present(Trigger, dataset[i])
            /\ ValuesGood(schema, dataset[i]))
        => vresult = "valid" /\ violations = << >>

\* the violations reported for field f of row i (1-based)
ViolationsOf(i, f) ==
    {k \in 1..Len(violations) :
        violations[k].row = i - 1 /\ violations[k].field = f}

\* C11: a row that lacks a statically required field (one declared
\* required=True, which the fields the spec calls required all are) is
\* reported for that field exactly once, as MissingRequiredField, and for nothing else on that
\* field; validation does not stop there: every rule that fails on a present
\* field of any validated row is reported, and the verdict is given only
\* after the last row.
C11_MissingReportedOnceAndContinues ==
    /\ \A i \in 1..Len(dataset) : i < rowi =>
          \A n \in 1..Len(Model(schema)) :
            LET b == Model(schema)[n] IN
              /\ ((b.required \/ b.name \in ClaimedRequired(schema))
                    /\ ~Present(b.name, dataset[i])) =>
                    /\ Cardinality(ViolationsOf(i, b.name)) = 1
                    /\ \A k \in ViolationsOf(i, b.name) :
                           violations[k].rule = "MissingRequiredField"
              /\ Present(b.name, dataset[i]) =>
                    \A j \in 1..Len(b.checks) :
                        RuleVerdict(b.checks[j], dataset[i][b.name]) # "none" =>
                            \E k \in ViolationsOf(i, b.name) :
                                violations[k].rule =
                                    RuleVerdict(b.checks[j], dataset[i][b.name])
    /\ vresult # "none" => rowi > Len(dataset)

\* C11 witness: the first row lacks retailerid and holds a bad linenumber, a
\* second row lacks a required field too, and all of it is reported
C11_Witness ==
    /\ schema = "order" /\ vresult = "invalid" /\ Len(dataset) = 2
    /\ ~Present("retailerid", dataset[1])
    /\ Present("linenumber", dataset[1])
    /\ \E k \in ViolationsOf(1, "retailerid") :
           violations[k].rule = "MissingRequiredField"
    /\ \E k \in ViolationsOf(1, "linenumber") :
           violations[k].rule = "LengthViolation"
    /\ \E k \in 1..Len(violations) :
           violations[k].row = 1 /\ violations[k].rule = "MissingRequiredField"

\* the amounts of at most 7 integer and 2 fractional digits
AmountFields == {"depositamount", "discountamount", "postoffamount"}

\* 9999999.99, 9999999.999 and 10000000.00
AtBound == Rep("9", 7) \o <<".">> \o Rep("9", 2)
OverPrecise == Rep("9", 7) \o <<".">> \o Rep("9", 3)
OverBound == <<"1">> \o Rep("0", 7) \o <<".">> \o Rep("0", 2)

\* the digits of a number before and after its point
IntDigits(v) == PointAt(v) - 1
FracDigits(v) == IF PointAt(v) > Len(v) THEN 0 ELSE Len(v) - PointAt(v)

\* C12: for depositamount, discountamount and postoffamount, in both schemas:
\* 9999999.99 passes with no violation, 9999999.999 is reported with a
\* PatternViolation and 10000000.00 with a RangeViolation; and a value passes
\* exactly when it is a number of at most 7 integer and 2 fractional digits.
C12_AmountBounds ==
    vresult # "none" =>
        \A f \in AmountFields \cap DOMAIN dataset[1] :
            LET v == dataset[1][f] IN
              /\ v = AtBound => ViolationsOf(1, f) = {} /\ vresult = "valid"
              /\ v = OverPrecise =>
                    /\ vresult = "invalid"
                    /\ \E k \in ViolationsOf(1, f) :
                           violations[k].rule = "PatternViolation"
              /\ v = OverBound =>
                    /\ vresult = "invalid"
                    /\ \E k \in ViolationsOf(1, f) :
                           violations[k].rule = "RangeViolation"
              /\ ViolationsOf(1, f) = {} <=>
                    (IsNumber(v) /\ IntDigits(v) <= 7 /\ FracDigits(v) <= 2)

\* C12 witness: an order row with depositamount 9999999.99 was found valid
C12_Witness ==
    /\ schema = "order" /\ vresult = "valid"
    /\ "depositamount" \in DOMAIN dataset[1]
    /\ dataset[1]["depositamount"] = AtBound

\* field f of row i is reported with rule kind r
Reported(i, f, r) == \E k \in ViolationsOf(i, f) : violations[k].rule = r

\* C13: in the Invoice schema an ordercost that is a decimal of at most 6
\* integer and 5 fractional digits (0 to 999999.99999) is accepted and every
\* other value is rejected; the pattern rule rejects a number exactly when
\* the range rule rejects it.
C13_OrdercostRangeAndPatternAgree ==
    (vresult # "none" /\ schema = "invoice" /\ "ordercost" \in DOMAIN dataset[1]) =>
        LET v == dataset[1]["ordercost"] IN
          /\ ViolationsOf(1, "ordercost") = {} <=>
                (IsNumber(v) /\ IntDigits(v) <= 6 /\ FracDigits(v) <= 5)
          /\ IsNumber(v) =>
                (Reported(1, "ordercost", "PatternViolation")
                    <=> Reported(1, "ordercost", "RangeViolation"))

\* the verdict of the earlier revision's OrderModel on the dataset
models_Accepts ==
    \A i \in 1..Len(dataset) :
        FieldsViolations(models_OrderModel, 1, i - 1, dataset[i]) = << >>

\* C14: the OrderModel of src/models.py and that of src/vippy/models.py bind
\* the same fields in the same order, each with the same required flag and
\* the same rules, and accept the same order datasets.
C14_RevisionsEquivalent ==
    (vresult # "none" /\ schema = "order") =>
        /\ Len(models_OrderModel) = Len(OrderModel)
        /\ \A k \in 1..Len(OrderModel) :
              /\ models_OrderModel[k].name = OrderModel[k].name
              /\ models_OrderModel[k].required = OrderModel[k].required
              /\ models_OrderModel[k].checks = OrderModel[k].checks
        /\ (vresult = "valid") <=> models_Accepts

====
